---- MODULE Spec2Model ----
(***************************************************************************)
(* Model of Python_version/defines.py of specfem1d: the Parameter object,  *)
(* the OneDgrid construction and the ricker Source.                        *)
(*                                                                         *)
(* Real numbers are exact rationals [n |-> numerator, d |-> denominator],  *)
(* kept in lowest terms with d > 0; d = 0 stands for the IEEE infinity a   *)
(* numpy division by zero produces.  Floating-point rounding is not        *)
(* modelled.  Arrays are functions over 0..len-1, as the source indexes    *)
(* them.                                                                   *)
(***************************************************************************)
EXTENDS Integers, Sequences, FiniteSets, TLC

\* ------------------------------------------------------------------ bounds
\* Largest element count NSPEC a Par_file of the model gives.
MaxSpec == 4
\* Largest polynomial degree a Par_file of the model asks for (N, NGLJ).
MaxDegree == 5
\* Number of samples plotSource draws (the source draws 1000).
PlotSamples == 3
\* Number of source[t] evaluations a run of the model makes.
MaxEvals == 2

\* ---------------------------------------------------------------- rationals
Abs(x) == IF x < 0 THEN -x ELSE x

RECURSIVE GCD(_, _)
GCD(a, b) == IF b = 0 THEN a ELSE GCD(b, a % b)

Rat(n, d) ==
    IF d = 0 THEN [n |-> 1, d |-> 0]
    ELSE LET s == IF d < 0 THEN -1 ELSE 1
             g == GCD(Abs(n), Abs(d))
         IN  [n |-> (s * n) \div g, d |-> (s * d) \div g]

RInt(k) == [n |-> k, d |-> 1]
RInf == [n |-> 1, d |-> 0]
RZero == RInt(0)

LCM(a, b) == (a \div GCD(a, b)) * b

RAdd(a, b) ==
    LET m == LCM(a.d, b.d)
    IN  Rat(a.n * (m \div a.d) + b.n * (m \div b.d), m)

RNeg(a) == [n |-> -a.n, d |-> a.d]
RSub(a, b) == RAdd(a, RNeg(b))
RMul(a, b) ==
    LET g1 == GCD(Abs(a.n), b.d)
        g2 == GCD(Abs(b.n), a.d)
    IN  Rat((a.n \div g1) * (b.n \div g2), (a.d \div g2) * (b.d \div g1))
\* a / b; a division by zero is reported by the caller's guard or gives RInf
RDiv(a, b) == IF b.n = 0 THEN RInf ELSE RMul(a, Rat(b.d, b.n))
RLe(a, b) == a.n * b.d <= b.n * a.d
RLt(a, b) == a.n * b.d < b.n * a.d

\* numpy.linspace(start, stop, num): num samples, the last one is stop
Linspace(start, stop, num) ==
    IF num = 1 THEN [k \in 0..0 |-> start]
    ELSE LET step == RDiv(RSub(stop, start), RInt(num - 1))
         IN  [k \in 0..(num - 1) |->
                 IF k = num - 1 THEN stop ELSE RAdd(start, RMul(RInt(k), step))]

\* ------------------------------------------------- gll and functions modules
\* gll.GLL_POINTS: Gauss-Lobatto-Legendre points by degree (to 3 decimals)
GLL_POINTS ==
    [d \in {2, 3, 4} |->
        CASE d = 2 -> [i \in 0..2 |-> Rat(<<-1000, 0, 1000>>[i + 1], 1000)]
          [] d = 3 -> [i \in 0..3 |-> Rat(<<-1000, -447, 447, 1000>>[i + 1], 1000)]
          [] d = 4 -> [i \in 0..4 |-> Rat(<<-1000, -655, 0, 655, 1000>>[i + 1], 1000)]]

\* gll.GLJ_POINTS: Gauss-Lobatto-Jacobi (0,1) points by degree (to 3 decimals)
GLJ_POINTS ==
    [d \in {2, 3, 4} |->
        CASE d = 2 -> [i \in 0..2 |-> Rat(<<-1000, 200, 1000>>[i + 1], 1000)]
          [] d = 3 -> [i \in 0..3 |-> Rat(<<-1000, -261, 547, 1000>>[i + 1], 1000)]
          [] d = 4 -> [i \in 0..4 |-> Rat(<<-1000, -508, 132, 709, 1000>>[i + 1], 1000)]]

\* functions.globalArray(nSpec, nGLL): ibool[e][i] = e*(nGLL-1) + i
globalArray(nSpec, nGLL) ==
    [e \in 0..(nSpec - 1) |-> [i \in 0..(nGLL - 1) |-> e * (nGLL - 1) + i]]

\* functions.invProjection(ksi, elt_number, ticks): the affine map of the
\* reference interval onto [ticks[e], ticks[e+1]]
invProjection(ksi, e, ticks) ==
    RAdd(ticks[e],
         RMul(RDiv(RAdd(ksi, RInt(1)), RInt(2)), RSub(ticks[e + 1], ticks[e])))

\* gll.jacobian(ticks, param): dXdKsi[e][k] = (ticks[e+1] - ticks[e]) / 2
jacobian(ticks, nSpec, nGLL) ==
    [e \in 0..(nSpec - 1) |->
        [k \in 0..(nGLL - 1) |-> RDiv(RSub(ticks[e + 1], ticks[e]), RInt(2))]]

\* gll.jacobian_inverse(ticks, param): dKsiDx[e][k] = 2 / (ticks[e+1] - ticks[e])
jacobian_inverse(ticks, nSpec, nGLL) ==
    [e \in 0..(nSpec - 1) |->
        [k \in 0..(nGLL - 1) |-> RDiv(RInt(2), RSub(ticks[e + 1], ticks[e]))]]

\* ------------------------------------------------------- Par_file contents
\* Defaults of the configuration parser (RIGIDITY in GPa, the others as given)
LENGTH == 3000
DENSITY == 2500
RIGIDITY == 30
TSOURCE == 100
MAX_AMPL == 10000000
DECAY_RATE == Rat(2628, 1000)

Lengths == {-LENGTH, 0, LENGTH}
SpecCounts == 0..MaxSpec
Degrees == 2..MaxDegree
GridTypes == {"homogeneous", "gradient", "miscellaneous", "file", "bogus"}
SourceTypes == {"ricker", "gaussian"}
SourceDurations == {0, TSOURCE}

\* The values Parameter.__init__ reads from the Par_file
ParFiles ==
    [axisym : BOOLEAN, length : Lengths, nSpec : SpecCounts, N : Degrees,
     NGLJ : Degrees, gridType : GridTypes, tSource : SourceDurations,
     sourceType : SourceTypes]

\* ------------------------------------------------------------------- state
VARIABLES
    cfg,      \* the Par_file
    param,    \* the Parameter object, once constructed
    grid,     \* the OneDgrid object, once constructed
    source,   \* the Source object, once constructed
    err,      \* the exception that ended the last failed constructor
    out,      \* what was printed to standard output
    tArr,     \* the caller's numpy array of times, passed to source[t]
    evals,    \* the values source[t] returned to the caller, in call order
    plotted   \* the data plotSource handed to plt.plot

vars == <<cfg, param, grid, source, err, out, tArr, evals, plotted>>

None == [status |-> "none"]
Failed == [status |-> "failed"]
NoError == [type |-> "none", name |-> "", value |-> 0]
Error(t, n, v) == [type |-> t, name |-> n, value |-> v]

\* The array of times the caller holds before any evaluation
CallerTimes == [k \in 0..1 |-> RInt(k)]

Init ==
    /\ cfg \in ParFiles
    /\ param = None
    /\ grid = None
    /\ source = None
    /\ err = NoError
    /\ out = <<>>
    /\ tArr = CallerTimes
    /\ evals = <<>>
    /\ plotted = None

\* ------------------------------------------------------ Parameter.__init__
\* The fields set before the quadrature tables are looked up
ParameterFields(c) ==
    [status |-> "built",
     axisym |-> c.axisym, length |-> RInt(c.length), nSpec |-> c.nSpec,
     N |-> c.N, NGLJ |-> c.NGLJ, gridType |-> c.gridType,
     meanRho |-> RInt(DENSITY), meanMu |-> RInt(RIGIDITY),
     tSource |-> RInt(c.tSource), maxAmpl |-> RInt(MAX_AMPL),
     sourceType |-> c.sourceType, decayRate |-> DECAY_RATE,
     nGLL |-> c.N + 1,
     nGLJ |-> c.NGLJ + 1,
     nGlob |-> (c.nSpec - 1) * c.N + c.NGLJ + 1,
     ibool |-> globalArray(c.nSpec, c.N + 1),
     dt |-> RZero, dtType |-> "int"]

\* A variant that looks up the GLJ table before the GLL table
ParameterErrorGLJFirst(c) ==
    IF c.NGLJ \notin DOMAIN GLJ_POINTS THEN Error("ValueError", "NGLJ", c.NGLJ)
    ELSE IF c.N \notin DOMAIN GLL_POINTS THEN Error("ValueError", "N", c.N)
    ELSE NoError

\* The exception of the table lookups, NoError when both degrees are tabulated
ParameterError(c) ==
    IF c.N \notin DOMAIN GLL_POINTS THEN Error("ValueError", "N", c.N)
    ELSE IF c.NGLJ \notin DOMAIN GLJ_POINTS THEN Error("ValueError", "NGLJ", c.NGLJ)
    ELSE NoError

\* The tables and derivative matrices of a Parameter whose degrees are tabulated
ParameterTables(c) ==
    [ksiGLL |-> GLL_POINTS[c.N],
     ksiGLJ |-> GLJ_POINTS[c.NGLJ],
     deriv |-> [fn |-> "lagrange_derivative", degree |-> c.N],
     derivGLJ |-> [fn |-> "glj_derivative", degree |-> c.NGLJ]]

ParameterInit ==
    /\ param = None
    /\ IF ParameterError(cfg) = NoError
       THEN /\ param' = ParameterFields(cfg) @@ ParameterTables(cfg)
            /\ err' = NoError
       ELSE /\ param' = Failed
            /\ err' = ParameterError(cfg)
    /\ UNCHANGED <<cfg, grid, source, out, tArr, evals, plotted>>

\* -------------------------------------------------------- OneDgrid.__init__
\* A variant that subdivides without the end point (linspace endpoint=False)
HomogeneousTicksNoEndpoint(p) ==
    [k \in 0..p.nSpec |-> RDiv(RMul(RInt(k), p.length), RInt(p.nSpec + 1))]

\* self.ticks of the homogeneous grid
HomogeneousTicks(p) == Linspace(RZero, p.length, p.nSpec + 1)

\* self.rho / self.mu of the homogeneous grid: the mean value at every node
UniformField(p, v) == [e \in 0..(p.nSpec - 1) |-> [i \in 0..(p.nGLL - 1) |-> v]]

\* One pass of the loop over the global points: [z, err] after the pass for i.
\* Reading ticks past its end is numpy's IndexError.
ZPass(p, ticks, z, i) ==
    LET last == p.nSpec
        first ==
            IF i < p.nGLJ
            THEN IF 1 \in DOMAIN ticks
                 THEN [z |-> [z EXCEPT ![i] = invProjection(p.ksiGLJ[i], 0, ticks)],
                       err |-> NoError]
                 ELSE [z |-> z, err |-> Error("IndexError", "ticks", 1)]
            ELSE [z |-> z, err |-> NoError]
    IN  IF first.err # NoError THEN first
        ELSE IF i >= p.nGLL /\ i < p.nGlob - 1
        THEN LET e == i \div p.N
             IN  IF (e + 1) \in DOMAIN ticks
                 THEN [z |-> [first.z EXCEPT
                                 ![i] = invProjection(p.ksiGLL[i % p.N], e, ticks)],
                       err |-> NoError]
                 ELSE [z |-> first.z, err |-> Error("IndexError", "ticks", e + 1)]
        ELSE [z |-> [first.z EXCEPT ![p.nGlob - 1] = ticks[last]], err |-> NoError]

\* The loop "for i in np.arange(param.nGlob-1)+1", from pass i on
RECURSIVE ZLoop(_, _, _, _)
ZLoop(p, ticks, z, i) ==
    IF i > p.nGlob - 1 THEN [z |-> z, err |-> NoError]
    ELSE LET r == ZPass(p, ticks, z, i)
         IN  IF r.err # NoError THEN r ELSE ZLoop(p, ticks, r.z, i + 1)

\* The homogeneous branch: [ticks, rho, mu, z, err]
HomogeneousGrid(p) ==
    LET ticks == HomogeneousTicks(p)
        zs == ZLoop(p, ticks, [k \in 0..(p.nGlob - 1) |-> RZero], 1)
    IN  [ticks |-> ticks,
         rho |-> UniformField(p, p.meanRho),
         mu |-> UniformField(p, p.meanMu),
         z |-> zs.z,
         err |-> zs.err]

\* The Jacobian step that ends the constructor: the grid it returns, or the
\* IndexError of a ticks array shorter than nSpec + 1
WithJacobians(p, g) ==
    IF p.nSpec \in DOMAIN g.ticks
    THEN [grid |-> [status |-> "built", z |-> g.z, rho |-> g.rho, mu |-> g.mu,
                    ticks |-> g.ticks,
                    dXdKsi |-> jacobian(g.ticks, p.nSpec, p.nGLL),
                    dKsiDx |-> jacobian_inverse(g.ticks, p.nSpec, p.nGLL)],
          err |-> NoError]
    ELSE [grid |-> Failed, err |-> Error("IndexError", "dE", p.nSpec - 1)]

\* What the three branches without an implementation print before "raise"
GridTypeMessage(t) ==
    CASE t = "gradient" -> "typeOfGrid == 'gradient' Has not been implemented yet"
      [] t = "miscellaneous" ->
             "typeOfGrid == 'miscellaneous' Has not been implemented yet"
      [] OTHER -> "Unknown grid's type"

\* A "raise" statement without an expression: with no exception being handled
\* by the caller it is Python 2's TypeError (exceptions must be old-style
\* classes or derived from BaseException, not NoneType); inside a caller's
\* except clause it raises the caller's exception again.
BareRaise ==
    {Error("TypeError", "NoneType", 0), Error("CallerException", "reraised", 0)}

\* What np.loadtxt can give for GRID_FILE and TICKS_FILE
GridFiles ==
    {[found |-> FALSE],
     [found |-> TRUE,
      z |-> [k \in 0..1 |-> RInt(k * LENGTH)],
      rho |-> [k \in 0..1 |-> RInt(DENSITY)],
      mu |-> [k \in 0..1 |-> RInt(RIGIDITY)],
      ticks |-> [k \in 0..1 |-> RInt(k * LENGTH)]]}

OneDgridInit ==
    /\ param.status = "built"
    /\ grid = None
    /\ IF param.nGlob < 0
       THEN \* np.zeros(param.nGlob): negative dimensions are not allowed
            /\ grid' = Failed
            /\ err' = Error("ValueError", "negative dimensions", param.nGlob)
            /\ out' = out
       ELSE IF param.gridType = "homogeneous"
       THEN LET g == HomogeneousGrid(param)
                r == WithJacobians(param, g)
            IN  /\ grid' = IF g.err # NoError THEN Failed ELSE r.grid
                /\ err' = IF g.err # NoError THEN g.err ELSE r.err
                /\ out' = out
       ELSE IF param.gridType = "file"
       THEN \E f \in GridFiles :
                IF f.found
                THEN LET r == WithJacobians(param, f)
                     IN  /\ grid' = r.grid
                         /\ err' = r.err
                         /\ out' = out
                ELSE /\ grid' = Failed
                     /\ err' = Error("IOError", "GRID_FILE", 0)
                     /\ out' = out
       ELSE \E x \in BareRaise :
                /\ grid' = Failed
                /\ err' = x
                /\ out' = Append(out, GridTypeMessage(param.gridType))
    /\ UNCHANGED <<cfg, param, source, tArr, evals, plotted>>

\* ------------------------------------------------- the time step, set later
\* "self.dt = 0  (will be updated)": the program that builds the grid
\* replaces param.dt by the positive time step it estimates from the grid.
\* The value is a Python float or a numpy float64.
TimeSteps == {Rat(1, 1000), Rat(1, 100)}
FloatTypes == {"float", "float64"}

SetDt ==
    /\ param.status = "built"
    /\ grid.status = "built"
    /\ param.dtType = "int"
    /\ \E v \in TimeSteps, ty \in FloatTypes :
           param' = [param EXCEPT !.dt = v, !.dtType = ty]
    /\ UNCHANGED <<cfg, grid, source, err, out, tArr, evals, plotted>>

\* ---------------------------------------------------------- Source.__init__
\* self.hdur = param.tSource*param.dt
SourceHdur(p) == RMul(p.tSource, p.dt)

\* A variant that divides by the duration in time steps, not in seconds
SourceAlphaNoDt(p) == RDiv(p.decayRate, p.tSource)

\* self.alpha = self.decayRate/self.hdur, for a hdur that is not zero
SourceAlpha(p) == RDiv(p.decayRate, SourceHdur(p))

\* The ricker branch: the Source object, or the ZeroDivisionError of Python's
\* float division; a zero numpy float64 divides to inf with a warning only
RickerSource(p) ==
    IF SourceHdur(p).n = 0 /\ p.dtType # "float64"
    THEN [source |-> Failed, err |-> Error("ZeroDivisionError", "hdur", 0)]
    ELSE [source |-> [status |-> "built", typeOfSource |-> p.sourceType,
                      ampl |-> p.maxAmpl, hdur |-> SourceHdur(p),
                      decayRate |-> p.decayRate, alpha |-> SourceAlpha(p)],
          err |-> NoError]

SourceInit ==
    /\ param.status = "built"
    /\ grid.status = "built"
    /\ source = None
    /\ IF param.sourceType = "ricker"
       THEN /\ source' = RickerSource(param).source
            /\ err' = RickerSource(param).err
            /\ out' = out
       ELSE \E x \in BareRaise :
                /\ source' = Failed
                /\ err' = x
                /\ out' = Append(out, "Unknown source's type")
    /\ UNCHANGED <<cfg, param, grid, tArr, evals, plotted>>

\* ------------------------------------------------------- Source.__getitem__
\* ampl*-2*alpha^3*u*exp(-alpha*alpha*u*u)/sqrt(pi), kept as the term of its
\* arguments: u is the time after "t-=self.hdur"
Ricker(s, u) == [ampl |-> s.ampl, alpha |-> s.alpha, u |-> u]

\* "t-=self.hdur" on a numpy array: the subtraction is done in the array
ShiftInPlace(s, t) == [k \in DOMAIN t |-> RSub(t[k], s.hdur)]

ScalarTimes == {RZero, RInt(1)}

\* source[t] for a Python number t: "t-=" rebinds the local name only
GetItemScalar ==
    /\ source.status = "built"
    /\ Len(evals) < MaxEvals
    /\ \E t \in ScalarTimes :
           evals' = Append(evals, [arg |-> "scalar", given |-> t,
                                   value |-> Ricker(source, RSub(t, source.hdur))])
    /\ UNCHANGED <<cfg, param, grid, source, err, out, tArr, plotted>>

\* source[t] for the caller's numpy array t
GetItemArray ==
    /\ source.status = "built"
    /\ Len(evals) < MaxEvals
    /\ tArr' = ShiftInPlace(source, tArr)
    /\ evals' = Append(evals, [arg |-> "array", given |-> tArr,
                               value |-> [k \in DOMAIN tArr |->
                                             Ricker(source, tArr'[k])]])
    /\ UNCHANGED <<cfg, param, grid, source, err, out, plotted>>

\* ---------------------------------------------------------- Source.plotSource
\* plt.plot(t, self[t], 'b'): t names the array self[t] has shifted
PlotSource ==
    /\ source.status = "built"
    /\ plotted = None
    /\ LET t == Linspace(RZero, source.hdur, PlotSamples)
           shifted == ShiftInPlace(source, t)
       IN  plotted' = [status |-> "shown", x |-> shifted,
                       y |-> [k \in DOMAIN t |-> Ricker(source, shifted[k])]]
    /\ UNCHANGED <<cfg, param, grid, source, err, out, tArr, evals>>

Next ==
    \/ ParameterInit
    \/ OneDgridInit
    \/ SetDt
    \/ SourceInit
    \/ GetItemScalar
    \/ GetItemArray
    \/ PlotSource

Spec == Init /\ [][Next]_vars

\* ---------------------------------------------------------------- the claims
\* The coordinate the index map asks for at local node i of element e: the
\* projection of the i-th GLJ point in element 0, of the i-th GLL point elsewhere
Projected(p, g, e, i) ==
    invProjection(IF e = 0 THEN p.ksiGLJ[i] ELSE p.ksiGLL[i], e, g.ticks)

\* The local nodes of element e: nGLJ of them in element 0, nGLL elsewhere
LocalNodes(p, e) == IF e = 0 THEN 0..(p.nGLJ - 1) ELSE 0..(p.nGLL - 1)

HomogeneousDone ==
    /\ param.status = "built"
    /\ param.gridType = "homogeneous"
    /\ param.nSpec >= 1
    /\ grid # None

\* C1: a homogeneous grid with nSpec >= 1 and tabulated degrees is built, and
\* its z agrees with the index map: z[e*(nGLL-1)+i] is the projection of the
\* i-th reference point of element e (GLJ in element 0, GLL elsewhere), every
\* global index of z is the image of some (e, i), and no element outside
\* 0..nSpec-1 is projected (the constructor does not end in an IndexError).
C1_ZAgreesWithIbool ==
    HomogeneousDone =>
        /\ grid.status = "built"
        /\ \A e \in 0..(param.nSpec - 1) : \A i \in LocalNodes(param, e) :
               /\ (e * (param.nGLL - 1) + i) \in DOMAIN grid.z
               /\ grid.z[e * (param.nGLL - 1) + i] = Projected(param, grid, e, i)
        /\ \A k \in DOMAIN grid.z :
               \E e \in 0..(param.nSpec - 1) : \E i \in LocalNodes(param, e) :
                   k = e * (param.nGLL - 1) + i

\* C2: a homogeneous grid with nSpec >= 1 and length > 0 has z[0] = 0,
\* z[nGlob-1] = the last tick = length, and z non-decreasing.
C2_ZMonotone ==
    (HomogeneousDone /\ grid.status = "built" /\ cfg.length > 0) =>
        /\ grid.z[0] = RZero
        /\ grid.z[param.nGlob - 1] = grid.ticks[param.nSpec]
        /\ grid.z[param.nGlob - 1] = param.length
        /\ \A k \in 0..(param.nGlob - 2) : RLe(grid.z[k], grid.z[k + 1])

\* C3: for a Parameter with nSpec >= 1, every ibool[e][i] lies in 0..nGlob-1,
\* adjacent elements share their boundary node, and the values of the table
\* are exactly the nGlob indices 0..nGlob-1.
C3_IboolConsistent ==
    (param.status = "built" /\ param.nSpec >= 1) =>
        LET values == {param.ibool[e][i] :
                           e \in 0..(param.nSpec - 1), i \in 0..(param.nGLL - 1)}
        IN  /\ values \subseteq 0..(param.nGlob - 1)
            /\ \A e \in 0..(param.nSpec - 2) :
                   param.ibool[e][param.nGLL - 1] = param.ibool[e + 1][0]
            /\ Cardinality(values) = param.nGlob
            /\ values = 0..(param.nGlob - 1)

\* C4: an evaluation source[t] changes neither the Source nor the caller's
\* array of times, and an evaluation that follows one of the same kind of
\* input on the same object returns the same values.
C4_GetItemPure ==
    [][(Len(evals') = Len(evals) + 1) =>
          /\ source' = source
          /\ tArr' = tArr
          /\ (/\ Len(evals) >= 1
              /\ evals[Len(evals)].arg = "array"
              /\ evals'[Len(evals')].arg = "array")
             => evals'[Len(evals')].value = evals[Len(evals)].value]_vars

\* C5: a grid type without an implementation ends the constructor in an error
\* that names the grid type as its cause, and no grid is returned.
C5_UnsupportedGridType ==
    (param.status = "built" /\ grid # None
     /\ param.gridType \in {"gradient", "miscellaneous", "bogus"}) =>
        /\ grid = Failed
        /\ err.type \in {"UnsupportedGridType", "NotImplementedError"}
        /\ err.name = param.gridType

\* C6: a degree N without a GLL table ends Parameter construction in an error
\* naming N and its value; a tabulated N with a degree NGLJ without a GLJ table
\* ends it in an error naming NGLJ and its value; in both cases there is no
\* Parameter object and no derivative matrix.
C6_InvalidDegree ==
    (param # None) =>
        /\ (cfg.N \notin DOMAIN GLL_POINTS) =>
               /\ param = Failed
               /\ err = Error("ValueError", "N", cfg.N)
        /\ (cfg.N \in DOMAIN GLL_POINTS /\ cfg.NGLJ \notin DOMAIN GLJ_POINTS) =>
               /\ param = Failed
               /\ err = Error("ValueError", "NGLJ", cfg.NGLJ)
        /\ (param = Failed) => "deriv" \notin DOMAIN param

C6_Witness ==
    /\ param = Failed
    /\ cfg.N \in DOMAIN GLL_POINTS
    /\ err = Error("ValueError", "NGLJ", cfg.NGLJ)

\* C7: with length <= 0 or nSpec <= 0 the homogeneous policy never yields a
\* grid.
C7_NoDegenerateGrid ==
    (param.status = "built" /\ param.gridType = "homogeneous"
     /\ (cfg.length <= 0 \/ cfg.nSpec <= 0)) =>
        grid.status # "built"

\* C8: the ticks of a homogeneous grid with nSpec >= 1 and length > 0 are the
\* nSpec+1 values k*length/nSpec, so they start at 0, end at length and
\* increase strictly; nSpec = 4 and length = 3000 give 0, 750, 1500, 2250, 3000.
C8_UniformTicks ==
    (HomogeneousDone /\ grid.status = "built" /\ cfg.length > 0) =>
        /\ DOMAIN grid.ticks = 0..param.nSpec
        /\ \A k \in 0..param.nSpec :
               RMul(grid.ticks[k], RInt(param.nSpec)) = RInt(k * cfg.length)
        /\ grid.ticks[0] = RZero
        /\ grid.ticks[param.nSpec] = param.length
        /\ \A k \in 0..(param.nSpec - 1) : RLt(grid.ticks[k], grid.ticks[k + 1])
        /\ (param.nSpec = 4 /\ cfg.length = 3000) =>
               grid.ticks = [k \in 0..4 |-> RInt(750 * k)]

C8_Witness ==
    /\ HomogeneousDone
    /\ grid.status = "built"
    /\ param.nSpec = 4
    /\ cfg.length = 3000
    /\ grid.ticks[1] = RInt(750)

\* C9: the nodes of element 0 of a homogeneous grid are projected from the GLJ
\* points when axisym is set and from the GLL points when it is not.
C9_GLJOnlyWhenAxisym ==
    (HomogeneousDone /\ grid.status = "built") =>
        \A i \in 1..(param.nGLL - 1) :
            (i \in DOMAIN grid.z /\ i \in DOMAIN param.ksiGLJ) =>
                grid.z[i] = invProjection(IF param.axisym THEN param.ksiGLJ[i]
                                          ELSE param.ksiGLL[i], 0, grid.ticks)

\* C10: Parameter construction leaves dt = 0; a ricker Source constructed
\* while dt is still that 0 ends in a ZeroDivisionError and gives no Source;
\* one constructed with dt and tSource not zero is built with
\* hdur = tSource*dt and alpha*hdur = decayRate.
C10_SourceAfterDt ==
    [][/\ (param = None /\ param'.status = "built") => param'.dt = RZero
       /\ (source = None /\ source' # None /\ param.sourceType = "ricker") =>
              /\ (param.dtType = "int") =>
                     /\ param.dt = RZero
                     /\ source' = Failed
                     /\ err'.type = "ZeroDivisionError"
              /\ (param.dt.n # 0 /\ param.tSource.n # 0) =>
                     /\ source'.status = "built"
                     /\ source'.hdur = RMul(param.tSource, param.dt)
                     /\ RMul(source'.alpha, source'.hdur) = param.decayRate]_vars

C10_Witness ==
    /\ source.status = "built"
    /\ param.dt.n # 0
    /\ param.tSource.n # 0
    /\ RMul(source.alpha, source.hdur) = param.decayRate
====
